---- MODULE Spec2Model ----
(***************************************************************************)
(* A model of steam-grid-ripper.py: the identifier normalizer, the         *)
(* shortcuts registry reader, the artwork downloader, the sidecar writer   *)
(* and the window that drives them.                                        *)
(*                                                                         *)
(* Python values are records [kind, neg, mag, text].  A Python int is      *)
(* unbounded, so it is kept as sign and magnitude, the magnitude a         *)
(* little-endian sequence of 16-bit limbs without high zero limbs.  Text   *)
(* is a sequence of one-character strings.  An operation that can raise    *)
(* returns a record that says so, and a try/except is the operator Catch.  *)
(***************************************************************************)
EXTENDS Integers, Sequences, FiniteSets, TLC

VARIABLES nraw, nres,          \* normalizer: the raw field, the outcome
          reg, rd,             \* registry reader: the file, the outcome
          denv, dfile, dres,   \* downloader: environment, destination, outcome
          grid, sargs, sruns,  \* sidecar writer: directory, arguments, runs
          pc, steamid, shortcuts, netlog, status, req   \* the window

vars == <<nraw, nres, reg, rd, denv, dfile, dres, grid, sargs, sruns,
          pc, steamid, shortcuts, netlog, status, req>>

-----------------------------------------------------------------------------
(* Bounds of the checked instances.                                        *)

MaxLimbs == 3
MaxBytes == 5
MaxTextLen == 3
MaxEntries == 5
MaxPairs == 2
MaxChunks == 3
MaxRuns == 2
MaxApplies == 1

-----------------------------------------------------------------------------
(* Unbounded integers as limbs.                                            *)

Base == 2 ^ 16

Zero == [neg |-> FALSE, mag |-> <<>>]

RECURSIVE StripZeros(_)
StripZeros(m) ==
  IF m = <<>> THEN <<>>
  ELSE IF m[Len(m)] = 0 THEN StripZeros(SubSeq(m, 1, Len(m) - 1))
  ELSE m

MkInt(neg, m) ==
  LET s == StripZeros(m) IN [neg |-> neg /\ s # <<>>, mag |-> s]

\* m * k + c in base b, little-endian.
RECURSIVE MulAdd(_, _, _, _)
MulAdd(m, k, c, b) ==
  IF m = <<>> THEN (IF c = 0 THEN <<>> ELSE <<c % b>> \o MulAdd(<<>>, k, c \div b, b))
  ELSE LET t == m[1] * k + c
       IN <<t % b>> \o MulAdd(Tail(m), k, t \div b, b)

\* quotient and remainder of m by a small k, base Base, little-endian.
RECURSIVE DivSmall(_, _)
DivSmall(m, k) ==
  IF m = <<>> THEN [q |-> <<>>, r |-> 0]
  ELSE LET hi == DivSmall(Tail(m), k)
           t == hi.r * Base + m[1]
       IN [q |-> <<t \div k>> \o hi.q, r |-> t % k]

RECURSIVE AndBits(_, _)
AndBits(a, b) ==
  IF a = 0 \/ b = 0 THEN 0
  ELSE (a % 2) * (b % 2) + 2 * AndBits(a \div 2, b \div 2)

\* the low n limbs of the two's complement form of a negative magnitude
RECURSIVE Complement(_, _, _)
Complement(m, n, carry) ==
  IF n = 0 THEN <<>>
  ELSE LET limb == IF m = <<>> THEN 0 ELSE m[1]
           t == (Base - 1 - limb) + carry
       IN <<t % Base>> \o
          Complement(IF m = <<>> THEN <<>> ELSE Tail(m), n - 1, t \div Base)

Pad(m, n) == [i \in 1..n |-> IF i <= Len(m) THEN m[i] ELSE 0]

TwosLimbs(x, n) == IF x.neg THEN Complement(x.mag, n, 1) ELSE Pad(x.mag, n)

\* x & m for a non-negative m (Python's & on unbounded two's complement).
PyAnd(x, m) ==
  LET n == Len(m.mag)
      t == TwosLimbs(x, n)
  IN MkInt(FALSE, [i \in 1..n |-> AndBits(t[i], m.mag[i])])

-----------------------------------------------------------------------------
(* Text.                                                                   *)

DigitChar == <<"0", "1", "2", "3", "4", "5", "6", "7", "8", "9">>

IsDigit(c) == \E i \in 1..10 : DigitChar[i] = c

DigitVal(c) == (CHOOSE i \in 1..10 : DigitChar[i] = c) - 1

RECURSIVE Digits(_)
Digits(m) ==
  IF m = <<>> THEN <<>>
  ELSE LET d == DivSmall(m, 10)
       IN Digits(StripZeros(d.q)) \o <<DigitChar[d.r + 1]>>

\* str(int)
PyStr(x) ==
  IF x.mag = <<>> THEN <<"0">>
  ELSE (IF x.neg THEN <<"-">> ELSE <<>>) \o Digits(x.mag)

IsSpace(c) == c = " "

RECURSIVE LStrip(_)
LStrip(t) == IF t # <<>> /\ IsSpace(t[1]) THEN LStrip(Tail(t)) ELSE t

RECURSIVE RStrip(_)
RStrip(t) ==
  IF t # <<>> /\ IsSpace(t[Len(t)]) THEN RStrip(SubSeq(t, 1, Len(t) - 1)) ELSE t

\* str.strip()
Strip(t) == RStrip(LStrip(t))

\* "^2" stands for the one character U+00B2, a digit that is no decimal
Superscript2 == "^2"

\* str.isdigit(): decimal characters and the other Unicode digits
IsDigitText(t) ==
  t # <<>> /\ \A i \in 1..Len(t) : IsDigit(t[i]) \/ t[i] = Superscript2

\* the digits of an int() literal: digits, single underscores between them
ValidLiteral(t) ==
  /\ t # <<>>
  /\ IsDigit(t[1]) /\ IsDigit(t[Len(t)])
  /\ \A i \in 1..Len(t) : IsDigit(t[i]) \/ t[i] = "_"
  /\ \A i \in 1..(Len(t) - 1) : ~(t[i] = "_" /\ t[i + 1] = "_")

RECURSIVE Horner(_, _, _)
Horner(t, acc, b) ==
  IF t = <<>> THEN acc
  ELSE IF t[1] = "_" THEN Horner(Tail(t), acc, b)
  ELSE Horner(Tail(t), MulAdd(acc, 10, DigitVal(t[1]), b), b)

\* int(text): [ok, val]; ok = FALSE is ValueError
ParseInt(text) ==
  LET s == Strip(text)
      signed == s # <<>> /\ s[1] \in {"-", "+"}
      body == IF signed THEN Tail(s) ELSE s
  IN IF ValidLiteral(body)
     THEN [ok |-> TRUE, val |-> MkInt(signed /\ s[1] = "-", Horner(body, <<>>, Base))]
     ELSE [ok |-> FALSE, val |-> Zero]

-----------------------------------------------------------------------------
(* Python values as they come out of the binary VDF parser.                *)

Val(kind, neg, mag, text) == [kind |-> kind, neg |-> neg, mag |-> mag, text |-> text]

NoneV == Val("none", FALSE, <<>>, <<>>)
IntV(x) == Val("int", x.neg, x.mag, <<>>)
BytesV(b) == Val("bytes", FALSE, b, <<>>)
StrV(t) == Val("str", FALSE, <<>>, t)
\* a float: nan, inf, or finite with its integer part and fraction digits
FloatV(cls, trunc, frac) == Val(cls, trunc.neg, trunc.mag, frac)
\* the empty dict
DictV == Val("dict", FALSE, <<>>, <<>>)

AsInt(v) == [neg |-> v.neg, mag |-> v.mag]

\* int.from_bytes(b, "little", signed=False)
RECURSIVE LimbsOfBytes(_)
LimbsOfBytes(b) ==
  IF b = <<>> THEN <<>>
  ELSE IF Len(b) = 1 THEN <<b[1]>>
  ELSE <<b[1] + 256 * b[2]>> \o LimbsOfBytes(SubSeq(b, 3, Len(b)))

IntFromBytes(b) == MkInt(FALSE, LimbsOfBytes(b))

AsciiChar(c) ==
  IF c \in 48..57 THEN DigitChar[c - 47]
  ELSE IF c = 32 THEN " " ELSE IF c = 43 THEN "+" ELSE IF c = 45 THEN "-"
  ELSE IF c = 95 THEN "_" ELSE "?"

AsciiText(b) == [i \in 1..Len(b) |-> AsciiChar(b[i])]

\* int(raw): [ok, val]; ok = FALSE is TypeError, ValueError or OverflowError
PyIntOf(raw) ==
  CASE raw.kind = "int" -> [ok |-> TRUE, val |-> AsInt(raw)]
    [] raw.kind = "str" -> ParseInt(raw.text)
    [] raw.kind = "bytes" -> ParseInt(AsciiText(raw.mag))
    [] raw.kind = "fin" -> [ok |-> TRUE, val |-> AsInt(raw)]
    [] OTHER -> [ok |-> FALSE, val |-> Zero]

\* str(raw)
PyStrOf(raw) ==
  CASE raw.kind = "int" -> PyStr(AsInt(raw))
    [] raw.kind = "str" -> raw.text
    [] raw.kind = "bytes" -> <<"b", "'">> \o AsciiText(raw.mag) \o <<"'">>
    [] raw.kind = "fin" -> PyStr(AsInt(raw)) \o <<".">> \o raw.text
    [] raw.kind = "nan" -> <<"n", "a", "n">>
    [] raw.kind = "inf" -> <<"i", "n", "f">>
    [] raw.kind = "none" -> <<"N", "o", "n", "e">>
    [] OTHER -> <<"{", "}">>

\* truthiness, as `or` sees it
Truthy(v) ==
  CASE v.kind = "none" -> FALSE
    [] v.kind = "int" -> v.mag # <<>>
    [] v.kind = "bytes" -> v.mag # <<>>
    [] v.kind = "str" -> v.text # <<>>
    [] v.kind = "fin" -> ~(v.mag = <<>> /\ \A i \in 1..Len(v.text) : v.text[i] = "0")
    [] v.kind = "dict" -> FALSE
    [] OTHER -> TRUE

\* a or b
PyOr(a, b) == IF Truthy(a) THEN a ELSE b

-----------------------------------------------------------------------------
(* normalize_appid_field                                                   *)

Returned(t) == [exc |-> FALSE, none |-> FALSE, text |-> t]
ReturnedNone == [exc |-> FALSE, none |-> TRUE, text |-> <<>>]
Raised == [exc |-> TRUE, none |-> FALSE, text |-> <<>>]

\* try: o   except Exception: handler
Catch(o, handler) == IF o.exc THEN handler ELSE o

\* 0xFFFFFFFF
Mask32 == [neg |-> FALSE, mag |-> <<Base - 1, Base - 1>>]

\* 0x7FFFFFFF
Mask31 == [neg |-> FALSE, mag |-> <<Base - 1, (Base \div 2) - 1>>]

\* lines 82-83
BytesCase(raw) == Returned(PyStr(PyAnd(IntFromBytes(raw.mag), Mask32)))

MaskedCaseNarrow(raw) ==
  LET i == PyIntOf(raw)
  IN IF i.ok THEN Returned(PyStr(PyAnd(i.val, Mask31))) ELSE Raised

\* lines 88-89
MaskedCase(raw) ==
  LET i == PyIntOf(raw)
  IN IF i.ok THEN Returned(PyStr(PyAnd(i.val, Mask32))) ELSE Raised

\* line 92
TextCase(raw) ==
  LET j == ParseInt(PyStrOf(raw))
  IN IF j.ok THEN Returned(PyStr(j.val)) ELSE Raised

IntCaseUncaught(raw) == Catch(MaskedCase(raw), TextCase(raw))

\* lines 87-94
IntCase(raw) == Catch(MaskedCase(raw), Catch(TextCase(raw), ReturnedNone))

normalize_appid_field(raw) ==
  IF raw.kind = "none" THEN ReturnedNone
  ELSE IF raw.kind = "bytes" THEN Catch(BytesCase(raw), IntCase(raw))
  ELSE IntCase(raw)

-----------------------------------------------------------------------------
(* The normalizer applied to one raw field.                                *)

Idle == <<>>

NormIdle == nraw = Idle /\ nres = Idle
ReadIdle == reg = Idle /\ rd = Idle
FetchIdle == denv = Idle /\ dfile = Idle /\ dres = Idle
SidecarIdle == grid = Idle /\ sargs = Idle /\ sruns = Idle
WindowIdle ==
  pc = Idle /\ steamid = Idle /\ shortcuts = Idle /\ netlog = Idle /\ status = Idle /\ req = Idle

SeqsUpTo(S, n) == UNION {[1..k -> S] : k \in 0..n}

LimbVals == {0, 1, 9, 10, Base \div 2, Base - 1}
ByteVals == {0, 1, 128, 255}
TextChars == {"0", "1", "9", "-", "+", " ", "_", "a"}

Mags == {m \in SeqsUpTo(LimbVals, MaxLimbs) : m = StripZeros(m)}
IntInputs == {[neg |-> n, mag |-> m] : n \in BOOLEAN, m \in Mags} \ {[neg |-> TRUE, mag |-> <<>>]}
BytesInputs == SeqsUpTo(ByteVals, MaxBytes)
LongTexts ==
  { <<"4", "2", "9", "4", "9", "6", "7", "2", "9", "5">>,
    <<"4", "2", "9", "4", "9", "6", "7", "2", "9", "6">>,
    <<" ", "-", "2", "7", "1", "5", "9", "0", " ">>,
    <<"1", "_", "0", "0", "0">>, <<"1", "_", "_", "0">>,
    <<"1", "2", " ", "3", "4">>, <<"0", "0", "7">>, <<"1", "-", "2", "3">> }
TextInputs == SeqsUpTo(TextChars, MaxTextLen) \cup LongTexts
FloatInputs ==
  { FloatV("nan", Zero, <<>>), FloatV("inf", Zero, <<>>),
    FloatV("fin", Zero, <<"0">>), FloatV("fin", MkInt(FALSE, <<3>>), <<"7">>),
    FloatV("fin", MkInt(TRUE, <<3>>), <<"7">>) }

RawInputs ==
  {NoneV, DictV} \cup {IntV(x) : x \in IntInputs} \cup {BytesV(b) : b \in BytesInputs}
  \cup {StrV(t) : t \in TextInputs} \cup FloatInputs

Pending == [state |-> "pending", out |-> ReturnedNone]

InitNorm ==
  /\ nraw \in RawInputs
  /\ nres = Pending
  /\ ReadIdle /\ FetchIdle /\ SidecarIdle /\ WindowIdle

Normalize ==
  /\ nres.state = "pending"
  /\ nres' = [state |-> "returned", out |-> normalize_appid_field(nraw)]
  /\ UNCHANGED <<nraw, reg, rd, denv, dfile, dres, grid, sargs, sruns,
                 pc, steamid, shortcuts, netlog, status, req>>

NextNorm == Normalize

SpecNorm == InitNorm /\ [][NextNorm]_vars

\* the decimal text of a value, read back in base b
ValueOf(text, b) == Horner(text, <<>>, b)

\* canonical decimal text: digits only, no leading zero but for "0"
IsDecimal(text) ==
  /\ text # <<>>
  /\ \A i \in 1..Len(text) : IsDigit(text[i])
  /\ Len(text) > 1 => text[1] # "0"

\* v mod 2^32 of a signed value, by arithmetic on its two low limbs
Mod32(x) ==
  LET lo == Pad(x.mag, 2)[1]
      hi == Pad(x.mag, 2)[2]
  IN IF x.neg
     THEN StripZeros(<<(Base - lo) % Base,
                       (2 * Base - hi - (IF lo = 0 THEN 0 ELSE 1)) % Base>>)
     ELSE StripZeros(<<lo, hi>>)

\* C2: an integer field normalizes to the decimal text of v mod 2^32, the
\* same text as v & 0xFFFFFFFF normalizes to; a byte field normalizes to the
\* decimal text of its little-endian unsigned value mod 2^32; either is the
\* decimal text of a value in 0..2^32-1.
C2_ReducedMod32 ==
  (nres.state = "returned" /\ nraw.kind \in {"int", "bytes"}) =>
    /\ ~nres.out.exc /\ ~nres.out.none
    /\ IsDecimal(nres.out.text)
    /\ Len(ValueOf(nres.out.text, Base)) <= 2
    /\ nraw.kind = "int" =>
         /\ ValueOf(nres.out.text, Base) = Mod32(AsInt(nraw))
         /\ nres.out = normalize_appid_field(IntV(MkInt(FALSE, Mod32(AsInt(nraw)))))
    /\ nraw.kind = "bytes" =>
         ValueOf(nres.out.text, 256) = StripZeros(Pad(nraw.mag, 4))

\* -1 came out as 4294967295
C2_Witness ==
  /\ nres.state = "returned"
  /\ nraw = IntV(MkInt(TRUE, <<1>>))
  /\ nres.out.text = <<"4", "2", "9", "4", "9", "6", "7", "2", "9", "5">>

HasDigit(t) == \E i \in 1..Len(t) : IsDigit(t[i])

\* text that holds no decimal integer: no digit, a character that belongs
\* to none, a sign after a digit, or a blank between digits
NoInteger(t) ==
  \/ ~HasDigit(t)
  \/ \E i \in 1..Len(t) : ~IsDigit(t[i]) /\ t[i] \notin {"+", "-", " ", "_"}
  \/ \E i, j \in 1..Len(t) : i < j /\ IsDigit(t[i]) /\ t[j] \in {"+", "-"}
  \/ \E i, j, k \in 1..Len(t) :
       i < j /\ j < k /\ IsDigit(t[i]) /\ t[j] = " " /\ IsDigit(t[k])

\* C10: the normalizer never raises; it returns a canonical id or none, and
\* none for an absent field and for text that holds no decimal integer.
C10_Total ==
  nres.state = "returned" =>
    /\ ~nres.out.exc
    /\ nres.out.none \/ IsDecimal(nres.out.text)
    /\ nraw.kind = "none" => nres.out.none
    /\ (nraw.kind = "str" /\ NoInteger(nraw.text)) => nres.out.none

\* text without a digit came back as none
C10_Witness ==
  /\ nres.state = "returned"
  /\ nraw = StrV(<<"a", "-", "a">>)
  /\ nres.out.none

-----------------------------------------------------------------------------
(* read_shortcuts                                                          *)

\* bytes.decode("utf-8", "ignore") on ASCII, two-byte sequences and stray
\* bytes: a stray byte is dropped
RECURSIVE DecodeIgnore(_)
DecodeIgnore(b) ==
  IF b = <<>> THEN <<>>
  ELSE IF b[1] < 128 THEN <<AsciiChar(b[1])>> \o DecodeIgnore(Tail(b))
  ELSE IF b[1] \in 194..223 /\ Len(b) >= 2 /\ b[2] \in 128..191
       THEN <<"~">> \o DecodeIgnore(SubSeq(b, 3, Len(b)))
  ELSE DecodeIgnore(Tail(b))

\* lines 120-121
FieldText(raw) == IF raw.kind = "bytes" THEN DecodeIgnore(raw.mag) ELSE PyStrOf(raw)

\* An entry of the shortcuts mapping: a field mapping or something else.  A
\* field is looked up under its text key (at, nt, et) and under its bytes
\* key (ab, nb, eb); a missing key reads as None.
Entry(ismap, at, ab, nt, nb, et, eb) ==
  [ismap |-> ismap, at |-> at, ab |-> ab, nt |-> nt, nb |-> nb, et |-> et, eb |-> eb]

\* line 115
RawAppid(e) == PyOr(e.at, e.ab)

\* lines 115-130 for one entry: [exc, keep, rec]
NoRecord == [appid |-> <<>>, AppName |-> <<>>, Exe |-> <<>>]

ReadEntry(e) ==
  IF ~e.ismap THEN [exc |-> TRUE, keep |-> FALSE, rec |-> NoRecord]
  ELSE LET appid_s == normalize_appid_field(RawAppid(e))
           raw_name == PyOr(PyOr(e.nt, e.nb), BytesV(<<>>))
           raw_exe == PyOr(PyOr(e.et, e.eb), BytesV(<<>>))
       IN IF appid_s.exc THEN [exc |-> TRUE, keep |-> FALSE, rec |-> NoRecord]
          ELSE IF appid_s.none \/ appid_s.text = <<>>
          THEN [exc |-> FALSE, keep |-> FALSE, rec |-> NoRecord]
          ELSE [exc |-> FALSE, keep |-> TRUE,
                rec |-> [appid |-> appid_s.text,
                         AppName |-> FieldText(raw_name),
                         Exe |-> FieldText(raw_exe)]]

\* lines 113-130: the loop; an exception leaves it
RECURSIVE ReadEntries(_, _)
ReadEntries(ents, acc) ==
  IF ents = <<>> THEN [exc |-> FALSE, entries |-> acc]
  ELSE LET r == ReadEntry(ents[1])
       IN IF r.exc THEN [exc |-> TRUE, entries |-> <<>>]
          ELSE ReadEntries(Tail(ents), IF r.keep THEN Append(acc, r.rec) ELSE acc)

\* The value under a key of the parsed container: absent, a mapping of
\* entries, or a scalar.
Absent == [kind |-> "absent", ents |-> <<>>]
Mapping(ents) == [kind |-> "map", ents |-> ents]
Scalar == [kind |-> "scalar", ents |-> <<>>]

SVTruthy(v) == (v.kind = "map" /\ v.ents # <<>>) \/ v.kind = "scalar"

\* line 112
Shortcuts(data) ==
  IF SVTruthy(data.tkey) THEN data.tkey
  ELSE IF SVTruthy(data.bkey) THEN data.bkey
  ELSE Mapping(<<>>)

\* lines 105-131; file is "absent", "unreadable", "garbage" or "ok"
read_shortcuts(r) ==
  IF r.file = "absent" THEN [exc |-> FALSE, entries |-> <<>>]
  ELSE IF r.file \in {"unreadable", "garbage"} THEN [exc |-> TRUE, entries |-> <<>>]
  ELSE LET sc == Shortcuts(r.data)
       IN IF sc.kind = "scalar" THEN [exc |-> TRUE, entries |-> <<>>]
          ELSE ReadEntries(sc.ents, <<>>)

Registry(file, tkey, bkey) == [file |-> file, data |-> [tkey |-> tkey, bkey |-> bkey]]

-----------------------------------------------------------------------------
(* The reader applied to one registry file.                                *)

Five == MkInt(FALSE, <<5>>)
NameG == StrV(<<"G">>)
ExeG == StrV(<<"g">>)

PlainEntry(id) == Entry(TRUE, id, NoneV, NameG, NoneV, ExeG, NoneV)

\* identifier values, under the text key
CoreEntries ==
  { PlainEntry(IntV(Five)), PlainEntry(IntV(Zero)),
    PlainEntry(NoneV), PlainEntry(StrV(<<"a">>)) }

OtherEntries ==
  { PlainEntry(BytesV(<<>>)), PlainEntry(BytesV(<<1, 0, 0, 128>>)),
    PlainEntry(IntV(MkInt(TRUE, <<1>>))),
    Entry(TRUE, NoneV, IntV(Five), NoneV, BytesV(<<71, 255>>), NoneV, NoneV),
    Entry(TRUE, IntV(Zero), BytesV(<<9>>), NoneV, NoneV, NoneV, BytesV(<<195, 169>>)),
    Entry(TRUE, IntV(Five), NoneV, IntV(Five), NoneV, DictV, NoneV),
    Entry(FALSE, NoneV, NoneV, NoneV, NoneV, NoneV, NoneV) }

EntryLists ==
  SeqsUpTo(CoreEntries, MaxEntries) \cup SeqsUpTo(CoreEntries \cup OtherEntries, MaxPairs)

RegInputs ==
  {Registry("ok", Mapping(es), Absent) : es \in EntryLists}
  \cup {Registry("ok", Absent, Mapping(es)) : es \in SeqsUpTo(CoreEntries, MaxPairs)}
  \cup { Registry("absent", Absent, Absent), Registry("unreadable", Absent, Absent),
         Registry("garbage", Absent, Absent), Registry("ok", Absent, Absent),
         Registry("ok", Scalar, Absent) }

ReadPending == [state |-> "pending", out |-> [exc |-> FALSE, entries |-> <<>>]]

InitRead ==
  /\ reg \in RegInputs
  /\ rd = ReadPending
  /\ NormIdle /\ FetchIdle /\ SidecarIdle /\ WindowIdle

ReadShortcuts ==
  /\ rd.state = "pending"
  /\ rd' = [state |-> "returned", out |-> read_shortcuts(reg)]
  /\ UNCHANGED <<nraw, nres, reg, denv, dfile, dres, grid, sargs, sruns,
                 pc, steamid, shortcuts, netlog, status, req>>

NextRead == ReadShortcuts

SpecRead == InitRead /\ [][NextRead]_vars

\* the container parsed and holds a mapping of entries (or none)
ContainerParses(r) == r.file = "ok" /\ Shortcuts(r.data).kind = "map"

\* the identifier field an entry carries: the one under the text key, else
\* the one under the bytes key
IdField(e) == IF e.at # NoneV THEN e.at ELSE e.ab

Normalizable(e) == ~normalize_appid_field(IdField(e)).none

RECURSIVE CanonicalIds(_)
CanonicalIds(ents) ==
  IF ents = <<>> THEN <<>>
  ELSE (IF Normalizable(ents[1])
        THEN <<normalize_appid_field(IdField(ents[1])).text>> ELSE <<>>)
       \o CanonicalIds(Tail(ents))

AllMappings(ents) == \A i \in 1..Len(ents) : ents[i].ismap

\* C1: of a registry of field mappings the reader returns one record per
\* entry whose identifier field normalizes, in order, and no other.
C1_OneRecordPerNormalizable ==
  (rd.state = "returned" /\ ContainerParses(reg)
     /\ AllMappings(Shortcuts(reg.data).ents)) =>
    /\ ~rd.out.exc
    /\ [i \in 1..Len(rd.out.entries) |-> rd.out.entries[i].appid]
         = CanonicalIds(Shortcuts(reg.data).ents)

WellFormed(e) == e.ismap /\ Normalizable(e) /\ Truthy(IdField(e))

\* C7: no entry makes the read of a parsed container fail, and every entry
\* that is well formed is returned.
C7_EntriesTolerated ==
  (rd.state = "returned" /\ ContainerParses(reg)) =>
    /\ ~rd.out.exc
    /\ Len(rd.out.entries)
         >= Cardinality({i \in 1..Len(Shortcuts(reg.data).ents) :
                           WellFormed(Shortcuts(reg.data).ents[i])})

-----------------------------------------------------------------------------
(* download_to_file                                                        *)

\* A file is the sequence of tokens written to it.  The directory maps the
\* names of the files that exist to their contents.
Exists(g, name) == name \in DOMAIN g
WriteFile(g, name, bytes) == (name :> bytes) @@ g

\* What the network and the disk do to one download: the connection, the
\* status, the open of the destination, the events iter_content yields (a
\* chunk, possibly empty, or an exception), which write raises (0: none),
\* and whether closing the file raises.
DlEnv(conn, st, open, stream, wfail, cfail) ==
  [conn |-> conn, status |-> st, open |-> open, stream |-> stream,
   wfail |-> wfail, cfail |-> cfail]

Chunk(data) == [exc |-> FALSE, data |-> data]
StreamError == [exc |-> TRUE, data |-> <<>>]

\* the directory after, the returned value, and whether an exception left
DlReturn(g, ret) == [exc |-> FALSE, ret |-> ret, g |-> g]
DlRaise(g) == [exc |-> TRUE, ret |-> FALSE, g |-> g]

\* lines 61-63: [exc, bytes] after the events, nw writes done so far
RECURSIVE WriteChunks(_, _, _, _)
WriteChunks(events, bytes, nw, wfail) ==
  IF events = <<>> THEN [exc |-> FALSE, bytes |-> bytes]
  ELSE IF events[1].exc THEN [exc |-> TRUE, bytes |-> bytes]
  ELSE IF events[1].data = <<>> THEN WriteChunks(Tail(events), bytes, nw, wfail)
  ELSE IF nw + 1 = wfail THEN [exc |-> TRUE, bytes |-> bytes]
  ELSE WriteChunks(Tail(events), bytes \o events[1].data, nw + 1, wfail)

\* the loop leaves at the first stream exception as if the body had ended
RECURSIVE WriteChunksBreak(_, _, _, _)
WriteChunksBreak(events, bytes, nw, wfail) ==
  IF events = <<>> THEN [exc |-> FALSE, bytes |-> bytes]
  ELSE IF events[1].exc THEN [exc |-> FALSE, bytes |-> bytes]
  ELSE IF events[1].data = <<>> THEN WriteChunksBreak(Tail(events), bytes, nw, wfail)
  ELSE IF nw + 1 = wfail THEN [exc |-> TRUE, bytes |-> bytes]
  ELSE WriteChunksBreak(Tail(events), bytes \o events[1].data, nw + 1, wfail)

WriteBodyBreak(env, g, out) ==
  IF env.open = "exc" THEN DlRaise(g)
  ELSE LET w == WriteChunksBreak(env.stream, <<>>, 0, env.wfail)
           g2 == WriteFile(g, out, w.bytes)
       IN IF w.exc \/ env.cfail THEN DlRaise(g2) ELSE DlReturn(g2, TRUE)

\* lines 60-64: open truncates, the chunks are written, the file is closed
WriteBody(env, g, out) ==
  IF env.open = "exc" THEN DlRaise(g)
  ELSE LET w == WriteChunks(env.stream, <<>>, 0, env.wfail)
           g2 == WriteFile(g, out, w.bytes)
       IN IF w.exc \/ env.cfail THEN DlRaise(g2) ELSE DlReturn(g2, TRUE)

\* try: o   except Exception: return False
CatchFalse(o) == IF o.exc THEN DlReturn(o.g, FALSE) ELSE o

download_to_file(env, g, out) ==
  LET get == IF env.conn = "exc" THEN DlRaise(g) ELSE DlReturn(g, TRUE)
  IN IF CatchFalse(get).ret = FALSE THEN DlReturn(g, FALSE)
     ELSE IF env.status # 200 THEN DlReturn(g, FALSE)
     ELSE CatchFalse(WriteBody(env, g, out))

-----------------------------------------------------------------------------
(* The downloader applied to one response.                                 *)

Events == {Chunk(<<"a">>), Chunk(<<"b", "c">>), Chunk(<<>>), StreamError}

DlEnvs ==
  {DlEnv(c, st, o, ev, wf, cf) :
     c \in {"ok", "exc"}, st \in {200, 404}, o \in {"ok", "exc"},
     ev \in SeqsUpTo(Events, MaxChunks), wf \in 0..MaxChunks, cf \in BOOLEAN}

Dest == "dest"

DlPending == [state |-> "pending", ret |-> FALSE, exc |-> FALSE]

InitFetch ==
  /\ denv \in DlEnvs
  /\ dfile \in {<<>>, Dest :> <<"o", "l", "d">>}
  /\ dres = DlPending
  /\ NormIdle /\ ReadIdle /\ SidecarIdle /\ WindowIdle

Download ==
  /\ dres.state = "pending"
  /\ LET o == download_to_file(denv, dfile, Dest)
     IN /\ dres' = [state |-> "returned", ret |-> o.ret, exc |-> o.exc]
        /\ dfile' = o.g
  /\ UNCHANGED <<nraw, nres, reg, rd, denv, grid, sargs, sruns,
                 pc, steamid, shortcuts, netlog, status, req>>

NextFetch == Download

SpecFetch == InitFetch /\ [][NextFetch]_vars

\* the whole body the response carries
RECURSIVE Body(_)
Body(events) ==
  IF events = <<>> THEN <<>> ELSE events[1].data \o Body(Tail(events))

Writes(events) == Cardinality({i \in 1..Len(events) : events[i].data # <<>>})

\* nothing went wrong with the request, the stream or the file
Clean(env) ==
  /\ env.conn = "ok" /\ env.status = 200 /\ env.open = "ok"
  /\ \A i \in 1..Len(env.stream) : ~env.stream[i].exc
  /\ env.wfail = 0 \/ env.wfail > Writes(env.stream)
  /\ ~env.cfail

\* C3: the download returns true exactly when the request completed with
\* status 200 and the whole body reached the destination; every failure
\* yields false and no exception leaves.
C3_TrueIffComplete ==
  dres.state = "returned" =>
    /\ ~dres.exc
    /\ dres.ret <=> Clean(denv)
    /\ dres.ret => (Exists(dfile, Dest) /\ dfile[Dest] = Body(denv.stream))

\* the stream broke after a chunk was written: false, though status was 200
C3_Witness ==
  /\ dres.state = "returned"
  /\ ~dres.ret
  /\ denv.conn = "ok" /\ denv.status = 200 /\ denv.open = "ok"
  /\ denv.stream = <<Chunk(<<"a">>), StreamError>>
  /\ dfile = (Dest :> <<"a">>)

-----------------------------------------------------------------------------
(* copy_or_write_json_for_target                                           *)

\* grid/<appid><suffix>
GridFile(appid, suffix) == <<appid, suffix>>

\* json.dump(default_json, f, indent=2), lines 147-156
DefaultJson ==
  << "{", "nVersion", "1", "logoPosition", "{", "pinnedPosition", "CenterCenter",
     "nWidthPct", "70.0", "nHeightPct", "95.0", "}", "}" >>

\* What the disk does to one sidecar write: copy2 succeeds ("ok"), fails
\* before it writes ("exc"), or fails with part written ("part"); open and
\* json.dump likewise.
ScEnv(copy, open, dump) == [copy |-> copy, open |-> open, dump |-> dump]

NoFault == ScEnv("ok", "ok", "ok")

ScReturn(g, st) == [exc |-> FALSE, status |-> st, g |-> g]
ScRaise(g) == [exc |-> TRUE, status |-> "", g |-> g]

Prefix(bytes) == SubSeq(bytes, 1, Len(bytes) \div 2)

\* shutil.copy2(src, dst), line 144: the same file is refused
Copy2(env, g, src, dst) ==
  IF src = dst THEN ScRaise(g)
  ELSE IF env.copy = "exc" THEN ScRaise(g)
  ELSE IF env.copy = "part" THEN ScRaise(WriteFile(g, dst, Prefix(g[src])))
  ELSE ScReturn(WriteFile(g, dst, g[src]), "JSON copied")

\* the default is appended to what the file holds
WriteDefaultAppend(env, g, dst) ==
  IF env.open = "exc" THEN ScRaise(g)
  ELSE IF env.dump = "exc" THEN ScRaise(WriteFile(g, dst, Prefix(DefaultJson)))
  ELSE ScReturn(WriteFile(g, dst, (IF Exists(g, dst) THEN g[dst] ELSE <<>>) \o DefaultJson),
                "JSON written (default)")

\* lines 155-157
WriteDefault(env, g, dst) ==
  IF env.open = "exc" THEN ScRaise(g)
  ELSE IF env.dump = "exc" THEN ScRaise(WriteFile(g, dst, Prefix(DefaultJson)))
  ELSE ScReturn(WriteFile(g, dst, DefaultJson), "JSON written (default)")

\* try: o   except Exception: return "JSON failed"
CatchFailed(o) == IF o.exc THEN ScReturn(o.g, "JSON failed") ELSE o

copy_or_write_json_for_target(env, g, source_appid, target_appid) ==
  LET src == GridFile(source_appid, ".json")
      dst == GridFile(target_appid, ".json")
  IN CatchFailed(IF Exists(g, src) THEN Copy2(env, g, src, dst)
                 ELSE WriteDefault(env, g, dst))

-----------------------------------------------------------------------------
(* The sidecar writer run on one directory, once and again.                *)

AppidA == <<"5">>
AppidB == <<"7">>
Appids == {AppidA, AppidB}

JsonContents == {<<"x", "y">>, <<"z">>, DefaultJson}

\* every directory over the sidecar files of the two identifiers
Directories ==
  UNION { [ {GridFile(a, ".json") : a \in present} -> JsonContents ] :
          present \in SUBSET Appids }

ScEnvs == {ScEnv(c, o, d) : c \in {"ok", "exc", "part"}, o \in {"ok", "exc"},
                            d \in {"ok", "exc"}}

InitSidecar ==
  /\ grid \in Directories
  /\ sargs \in [source : Appids, target : Appids]
  /\ sruns = <<>>
  /\ NormIdle /\ ReadIdle /\ FetchIdle /\ WindowIdle

ApplySidecar ==
  /\ Len(sruns) < MaxRuns
  /\ \E env \in ScEnvs :
       LET o == copy_or_write_json_for_target(env, grid, sargs.source, sargs.target)
           src == GridFile(sargs.source, ".json")
           dst == GridFile(sargs.target, ".json")
       IN /\ grid' = o.g
          /\ sruns' = Append(sruns,
               [env |-> env, exc |-> o.exc, status |-> o.status,
                hadSource |-> Exists(grid, src),
                sourceBytes |-> IF Exists(grid, src) THEN grid[src] ELSE <<>>,
                hasTarget |-> Exists(o.g, dst),
                targetBytes |-> IF Exists(o.g, dst) THEN o.g[dst] ELSE <<>>])
  /\ UNCHANGED <<nraw, nres, reg, rd, denv, dfile, dres, sargs,
                 pc, steamid, shortcuts, netlog, status, req>>

NextSidecar == ApplySidecar

SpecSidecar == InitSidecar /\ [][NextSidecar]_vars

\* the default document: version 1, centre-anchored, width 70, height 95
IsDefaultDocument(bytes) ==
  /\ Len(bytes) = 13
  /\ bytes[2] = "nVersion" /\ bytes[3] = "1"
  /\ bytes[6] = "pinnedPosition" /\ bytes[7] = "CenterCenter"
  /\ bytes[8] = "nWidthPct" /\ bytes[9] = "70.0"
  /\ bytes[10] = "nHeightPct" /\ bytes[11] = "95.0"

\* C5: without an I/O error, a run that finds <source>.json leaves
\* <target>.json with its bytes and returns Copied; a run that does not
\* leaves the default document and returns WrittenDefault.
C5_CopiedOrDefault ==
  \A i \in 1..Len(sruns) :
    sruns[i].env = NoFault =>
      /\ ~sruns[i].exc
      /\ sruns[i].hasTarget
      /\ IF sruns[i].hadSource
         THEN /\ sruns[i].targetBytes = sruns[i].sourceBytes
              /\ sruns[i].status = "JSON copied"
         ELSE /\ IsDefaultDocument(sruns[i].targetBytes)
              /\ sruns[i].status = "JSON written (default)"

\* C8: two runs in a row with the same arguments, the disk behaving alike
\* in both, leave <target>.json in the same state with the same bytes.
C8_SecondRunSameBytes ==
  \A i \in 1..(Len(sruns) - 1) :
    sruns[i].env = sruns[i + 1].env =>
      /\ sruns[i + 1].hasTarget = sruns[i].hasTarget
      /\ sruns[i + 1].targetBytes = sruns[i].targetBytes
      /\ sruns[i].env = NoFault => sruns[i + 1].hasTarget

\* source equal to target and no sidecar yet: the first run wrote the
\* default, the second found it in place
C8_Witness ==
  /\ Len(sruns) >= 2
  /\ sargs.source = sargs.target
  /\ sruns[1].env = NoFault /\ sruns[2].env = NoFault
  /\ ~sruns[1].hadSource /\ sruns[2].hadSource
  /\ sruns[2].targetBytes = DefaultJson

-----------------------------------------------------------------------------
(* find_steam_userdata and ensure_grid_dir                                 *)

CharCode(c) ==
  IF IsDigit(c) THEN 48 + DigitVal(c)
  ELSE IF c = "a" THEN 97 ELSE IF c = "b" THEN 98 ELSE 120

\* a < b, as sorted() orders the names
RECURSIVE TextLess(_, _)
TextLess(a, b) ==
  IF b = <<>> THEN FALSE
  ELSE IF a = <<>> THEN TRUE
  ELSE IF a[1] # b[1] THEN CharCode(a[1]) < CharCode(b[1])
  ELSE TextLess(Tail(a), Tail(b))

\* lines 35-43: the first numeric folder, or none (the empty name)
find_steam_userdata(base) ==
  IF ~base.exists THEN <<>>
  ELSE LET q == {e \in base.listing : e.isdir /\ IsDigitText(e.name)}
       IN IF q = {} THEN <<>>
          ELSE (CHOOSE e \in q : \A o \in q : o = e \/ TextLess(e.name, o.name)).name

-----------------------------------------------------------------------------
(* The window: __init__, reload_shortcuts and on_apply.                    *)

Asset(label, file, suffix) == [label |-> label, file |-> file, suffix |-> suffix]

\* lines 244-259, in the order they are fetched
Assets ==
  << Asset("Cover", "library_600x900_2x.jpg", "p.jpg"),
     Asset("Wide", "library_411x184.jpg", ".jpg"),
     Asset("Hero", "library_hero.jpg", "_hero.jpg"),
     Asset("Logo", "logo.png", "_logo.png") >>

Url(source_appid, file) == [appid |-> source_appid, file |-> file]

Result(label, ok) == [label |-> label, ok |-> ok]

\* the fetches stop at the first one that fails
RECURSIVE FetchFromStopping(_, _, _, _, _)
FetchFromStopping(k, envs, g, target_id, results) ==
  IF k > Len(Assets) THEN [exc |-> FALSE, g |-> g, results |-> results]
  ELSE LET o == download_to_file(envs[k], g, GridFile(target_id, Assets[k].suffix))
       IN IF o.exc THEN [exc |-> TRUE, g |-> o.g, results |-> results]
          ELSE IF ~o.ret
          THEN [exc |-> FALSE, g |-> o.g,
                results |-> Append(results, Result(Assets[k].label, FALSE))]
          ELSE FetchFromStopping(k + 1, envs, o.g, target_id,
                                 Append(results, Result(Assets[k].label, o.ret)))

\* lines 255-259: asset k and those after it
RECURSIVE FetchFrom(_, _, _, _, _)
FetchFrom(k, envs, g, target_id, results) ==
  IF k > Len(Assets) THEN [exc |-> FALSE, g |-> g, results |-> results]
  ELSE LET o == download_to_file(envs[k], g, GridFile(target_id, Assets[k].suffix))
       IN IF o.exc THEN [exc |-> TRUE, g |-> o.g, results |-> results]
          ELSE FetchFrom(k + 1, envs, o.g, target_id,
                         Append(results, Result(Assets[k].label, o.ret)))

\* any text that is not blank passes
SourceValidLax(text) == Strip(text) # <<>>

\* lines 233-234
SourceValid(text) == IsDigitText(Strip(text))

NoRequest ==
  [n |-> 0, row |-> -1, text |-> <<>>, outcome |-> "none", raisedIn |-> "",
   clean |-> <<>>, fault |-> FALSE]

Request(n, row, text, outcome, raisedIn, clean, fault) ==
  [n |-> n, row |-> row, text |-> text, outcome |-> outcome, raisedIn |-> raisedIn,
   clean |-> clean, fault |-> fault]

Report(kind, n, results) == [kind |-> kind, n |-> n, results |-> results]

InitWindow ==
  /\ pc = "start"
  /\ steamid = <<>>
  /\ shortcuts = <<>>
  /\ grid = <<>>
  /\ reg = Registry("absent", Absent, Absent)
  /\ netlog = <<>>
  /\ status = Report("", 0, <<>>)
  /\ req = NoRequest
  /\ NormIdle /\ FetchIdle /\ sargs = Idle /\ sruns = Idle /\ rd = Idle

DirEntry(name, isdir) == [name |-> name, isdir |-> isdir]

Listings ==
  SUBSET { DirEntry(<<"1", "2">>, TRUE), DirEntry(<<"7">>, TRUE),
           DirEntry(<<"9">>, FALSE), DirEntry(<<"a", "b">>, TRUE) }

Bases == {[exists |-> FALSE, listing |-> {}]} \cup
         {[exists |-> TRUE, listing |-> l] : l \in Listings}

Minus1 == MkInt(TRUE, <<1>>)

WindowRegs ==
  { Registry("absent", Absent, Absent), Registry("garbage", Absent, Absent),
    Registry("ok", Mapping(<<PlainEntry(IntV(Five)), PlainEntry(IntV(Minus1))>>), Absent),
    Registry("ok", Mapping(<<PlainEntry(IntV(Five)),
                             Entry(FALSE, NoneV, NoneV, NoneV, NoneV, NoneV, NoneV)>>),
             Absent) }

\* what the grid folder holds when the window opens
WindowGrids ==
  { <<>>,
    (GridFile(AppidB, ".json") :> <<"x", "y">>) @@
    (GridFile(AppidA, "p.jpg") :> <<"o", "l", "d">>) @@ (GridFile(AppidA, ".json") :> <<"z">>) }

\* lines 165-216 with reload_shortcuts, lines 218-226
Construct ==
  /\ pc = "start"
  /\ \E base \in Bases, mk \in {"ok", "exc"}, r \in WindowRegs, g \in WindowGrids :
       LET found == find_steam_userdata(base)
           read == read_shortcuts(r)
       IN IF found = <<>>
          THEN /\ pc' = "exited"
               /\ UNCHANGED <<steamid, reg, grid, shortcuts, status, req>>
          ELSE IF mk = "exc"
          THEN /\ pc' = "crashed"
               /\ steamid' = found
               /\ req' = [req EXCEPT !.raisedIn = "ensure_grid_dir"]
               /\ UNCHANGED <<reg, grid, shortcuts, status>>
          ELSE IF read.exc
          THEN /\ pc' = "crashed"
               /\ steamid' = found
               /\ reg' = r /\ grid' = g
               /\ req' = [req EXCEPT !.raisedIn = "read_shortcuts"]
               /\ UNCHANGED <<shortcuts, status>>
          ELSE /\ pc' = "ready"
               /\ steamid' = found
               /\ reg' = r /\ grid' = g
               /\ shortcuts' = read.entries
               /\ status' = Report("Loaded", Len(read.entries), <<>>)
               /\ UNCHANGED req
  /\ UNCHANGED <<nraw, nres, rd, denv, dfile, dres, sargs, sruns, netlog>>

SourceTexts ==
  { <<"7">>, <<" ", "5", " ">>, <<Superscript2>>,
    <<"a", "b", "c", "1", "2", "3">>, <<>>, <<"7", " ", "7">> }

ImageOk == DlEnv("ok", 200, "ok", <<Chunk(<<"i", "m">>), Chunk(<<"g">>)>>, 0, FALSE)
Image404 == DlEnv("ok", 404, "ok", <<Chunk(<<"4", "0", "4">>)>>, 0, FALSE)
ImageCut == DlEnv("ok", 200, "ok", <<Chunk(<<"i", "m">>), StreamError>>, 0, FALSE)

\* every combination of 200 and 404 over the four assets, and a cut stream
WindowDlEnvs ==
  [1..Len(Assets) -> {ImageOk, Image404}] \cup {[k \in 1..Len(Assets) |-> ImageCut]}
WindowScEnvs == {NoFault, ScEnv("exc", "exc", "ok")}

\* lines 228-268
on_apply(row, text, envs, scenv) ==
  IF row < 0
  THEN /\ req' = Request(req.n + 1, row, text, "select an entry", "", <<>>, FALSE)
       /\ UNCHANGED <<pc, grid, netlog, status>>
  ELSE IF ~SourceValid(text)
  THEN /\ req' = Request(req.n + 1, row, text, "invalid appid", "", <<>>, FALSE)
       /\ UNCHANGED <<pc, grid, netlog, status>>
  ELSE LET source_appid == Strip(text)
           target_id == shortcuts[row + 1].appid
           f == FetchFrom(1, envs, grid, target_id, <<>>)
           j == copy_or_write_json_for_target(scenv, f.g, source_appid, target_id)
           clean == [k \in 1..Len(Assets) |-> Clean(envs[k])]
           urls == [k \in 1..Len(f.results) + (IF f.exc THEN 1 ELSE 0)
                      |-> Url(source_appid, Assets[k].file)]
       IN IF f.exc
          THEN /\ pc' = "crashed"
               /\ grid' = f.g
               /\ netlog' = netlog \o urls
               /\ req' = Request(req.n + 1, row, text, "raised", "download_to_file",
                                 clean, scenv # NoFault)
               /\ UNCHANGED status
          ELSE /\ netlog' = netlog \o urls
               /\ grid' = j.g
               /\ IF j.exc
                  THEN /\ pc' = "crashed"
                       /\ req' = Request(req.n + 1, row, text, "raised",
                                         "copy_or_write_json_for_target",
                                         clean, scenv # NoFault)
                       /\ UNCHANGED status
                  ELSE /\ pc' = pc
                       /\ req' = Request(req.n + 1, row, text, "applied", "",
                                         clean, scenv # NoFault)
                       /\ status' = Report("Saved", 0,
                                           Append(f.results, Result(j.status, TRUE)))

OnApply ==
  /\ pc = "ready"
  /\ req.n < MaxApplies
  /\ \E row \in -1..(Len(shortcuts) - 1), text \in SourceTexts :
       IF row < 0 \/ ~SourceValid(text)
       THEN on_apply(row, text, [k \in 1..Len(Assets) |-> ImageOk], NoFault)
       ELSE \E envs \in WindowDlEnvs, scenv \in WindowScEnvs :
              on_apply(row, text, envs, scenv)
  /\ UNCHANGED <<nraw, nres, reg, rd, denv, dfile, dres, sargs, sruns,
                 steamid, shortcuts>>

Init == InitWindow

Next == Construct \/ OnApply

Spec == Init /\ [][Next]_vars

JsonStatuses == {"JSON copied", "JSON written (default)", "JSON failed"}

\* C4: an apply attempts all four fetches, in order, whatever each one's
\* outcome; the report gives each asset its own outcome, followed by the
\* sidecar's status, and the sidecar is written.
C4_EachAssetItsOwnOutcome ==
  req.outcome = "applied" =>
    LET src == Strip(req.text)
        tgt == shortcuts[req.row + 1].appid
    IN /\ Len(status.results) = Len(Assets) + 1
       /\ \A k \in 1..Len(Assets) :
            /\ status.results[k] = Result(Assets[k].label, req.clean[k])
            /\ netlog[Len(netlog) - Len(Assets) + k] = Url(src, Assets[k].file)
            /\ req.clean[k] =>
                 /\ Exists(grid, GridFile(tgt, Assets[k].suffix))
                 /\ grid[GridFile(tgt, Assets[k].suffix)] = Body(ImageOk.stream)
       /\ status.results[Len(Assets) + 1].label \in JsonStatuses
       /\ (~req.fault /\ src # tgt) =>
            /\ Exists(grid, GridFile(tgt, ".json"))
            /\ status.results[Len(Assets) + 1].label # "JSON failed"

\* one 404 among three 200, and the default sidecar written after them
C4_Witness ==
  /\ req.outcome = "applied"
  /\ req.clean = <<TRUE, FALSE, TRUE, TRUE>>
  /\ status.results[2] = Result("Wide", FALSE)
  /\ status.results[5].label = "JSON written (default)"

UnicodeDigits == {DigitChar[i] : i \in 1..10} \cup {Superscript2}

NotAllDigits(t) == t = <<>> \/ \E i \in 1..Len(t) : t[i] \notin UnicodeDigits

\* C6: an apply with no row selected, or with a source that is not all
\* digits once trimmed, is rejected with no fetch issued and no file or
\* status changed.
C6_RejectedBeforeSideEffects ==
  [][ (req'.n = req.n + 1 /\ (req'.row < 0 \/ NotAllDigits(Strip(req'.text))))
        => /\ req'.outcome \in {"select an entry", "invalid appid"}
           /\ grid' = grid /\ netlog' = netlog /\ status' = status /\ pc' = pc ]_vars

\* "abc123" was rejected with a row selected and nothing fetched
C6_Witness ==
  /\ req.outcome = "invalid appid"
  /\ req.row >= 0
  /\ req.text = <<"a", "b", "c", "1", "2", "3">>
  /\ netlog = <<>>

CoreOperations == {"read_shortcuts", "download_to_file", "copy_or_write_json_for_target"}

\* C9: with the userdata root found, no failure inside a core operation
\* raises out of it and ends the session.
C9_NoCoreFailureEndsSession ==
  ~(pc = "crashed" /\ steamid # <<>> /\ req.raisedIn \in CoreOperations)

====
